---- MODULE Spec2Model ----
(***************************************************************************)
(* Model of the batch email extraction pipeline of src/app.py:             *)
(* extract_emails_from_url (lines 19-57) and the "Extract Emails" handler  *)
(* of main (lines 109-196).  Strings are TLA+ strings; a table cell is a   *)
(* record [na, s] where na marks pandas' missing value (NaN).  A value     *)
(* that is computed once and read several times is bound by a quantifier   *)
(* over a one-element set.                                                 *)
(*                                                                         *)
(* Spec      tables of up to MaxRows rows over RawCells;                   *)
(* FairSpec  tables of up to MaxRows rows over FairCells, with the weak    *)
(*           fairness of the handler's steps;                              *)
(* SpecMany  tables of up to MaxRowsMany rows over ManyCells.              *)
(***************************************************************************)
EXTENDS Integers, Sequences, FiniteSets, TLC

\* ------------------------------------------------------------ bounds
\* Rows of the uploaded table in Spec and FairSpec.
MaxRows == 2

\* Rows of the uploaded table in SpecMany.
MaxRowsMany == 6

\* ------------------------------------------------------------ strings
\* The k-th character of s, "" outside it.
Char(s, k) == IF k \in 1..Len(s) THEN SubSeq(s, k, k) ELSE ""

\* str.startswith(p)
StartsWith(s, p) == Len(s) >= Len(p) /\ SubSeq(s, 1, Len(p)) = p

\* The characters str.strip() removes (those the model's inputs use).
Whitespace == {" ", "\t", "\n"}

\* Least element of a non-empty set of integers.
Least(S) == CHOOSE k \in S : \A j \in S : k <= j

\* Index of the first character of s at or after from that is in cls; Len(s)+1 if none.
FirstOf(s, from, cls) ==
    Least({k \in from..(Len(s) + 1) : k = Len(s) + 1 \/ Char(s, k) \in cls} \cup {Len(s) + 1})

\* Index of the first character of s at or after from that is not in cls; Len(s)+1 if none.
FirstNotOf(s, from, cls) ==
    Least({k \in from..(Len(s) + 1) : k = Len(s) + 1 \/ Char(s, k) \notin cls} \cup {Len(s) + 1})

\* Length of the longest run of characters of cls that starts at s[from].
RunLen(s, from, cls) == IF from > Len(s) THEN 0 ELSE FirstNotOf(s, from, cls) - from

\* str.lstrip()
LStrip(s) == SubSeq(s, FirstNotOf(s, 1, Whitespace), Len(s))

\* str.rstrip()
RStrip(s) ==
    SubSeq(s, 1, Len(s) - Least({n \in 0..Len(s) : n = Len(s) \/ Char(s, Len(s) - n) \notin Whitespace}))

\* str.strip()
Strip(s) == RStrip(LStrip(s))

\* " / ".join(emails)
RECURSIVE Join(_, _)
Join(seq, sep) ==
    IF Len(seq) = 0 THEN ""
    ELSE IF Len(seq) = 1 THEN seq[1]
    ELSE seq[1] \o sep \o Join(Tail(seq), sep)

Range(seq) == {seq[k] : k \in 1..Len(seq)}

\* The orders in which iterating a set can list its elements.
Orderings(S) ==
    {p \in [1..Cardinality(S) -> S] : \A a, b \in 1..Cardinality(S) : p[a] = p[b] => a = b}

\* ------------------------------------------------------------ urlparse
Lower == {"a","b","c","d","e","f","g","h","i","j","k","l","m",
          "n","o","p","q","r","s","t","u","v","w","x","y","z"}
Upper == {"A","B","C","D","E","F","G","H","I","J","K","L","M",
          "N","O","P","Q","R","S","T","U","V","W","X","Y","Z"}
Digits == {"0","1","2","3","4","5","6","7","8","9"}
Letters == Lower \cup Upper

\* urllib.parse.urlparse(url).netloc for a url that carries a scheme:
\* the text between "//" after the scheme's colon and the first of "/", "?", "#".
netloc(url) ==
    LET colon == FirstOf(url, 1, {":"})
        rest == SubSeq(url, colon + 1, Len(url))
    IN  IF colon <= Len(url) /\ StartsWith(rest, "//")
        THEN SubSeq(rest, 3, FirstOf(rest, 3, {"/", "?", "#"}) - 1)
        ELSE ""

\* urlparse raises ValueError("Invalid IPv6 URL") on an unbalanced bracket in the netloc.
HasChar(s, c) == \E k \in 1..Len(s) : Char(s, k) = c

urlparse_raises(url) ==
    \E n \in {netloc(url)} :
        (HasChar(n, "[") /\ ~HasChar(n, "]")) \/ (HasChar(n, "]") /\ ~HasChar(n, "["))

\* ------------------------------------------------------------ EMAIL_REGEX
\* [a-zA-Z0-9._%+-]+@[a-zA-Z0-9.-]+\.[a-zA-Z]{2,}
LocalChars == Letters \cup Digits \cup {".", "_", "%", "+", "-"}
DomainChars == Letters \cup Digits \cup {".", "-"}

\* Fewest letters the pattern's last group takes: {2,}.
MinTLD == 2

\* Index of the last character of the match that starts at i, 0 when none starts
\* there.  The local part is the whole run of LocalChars (no shorter one is
\* followed by "@"); the greedy domain group gives back characters down to the
\* last "." of its run that has a character before it and MinTLD letters after it.
MatchEnd(t, i) ==
    LET L == RunLen(t, i, LocalChars)
        d0 == i + L + 1
        D == RunLen(t, d0, DomainChars)
        dots == {p \in (d0 + 1)..(d0 + D - 1) :
                    Char(t, p) = "." /\ RunLen(t, p + 1, Letters) >= MinTLD}
        p == CHOOSE q \in dots : \A r \in dots : r <= q
    IN  IF L = 0 \/ Char(t, i + L) # "@" \/ dots = {} THEN 0
        ELSE p + RunLen(t, p + 1, Letters)

\* The matches from position i on, left to right, none overlapping another.
findallFrom[t \in STRING, i \in Nat] ==
    IF i > Len(t) THEN <<>>
    ELSE IF MatchEnd(t, i) > 0
    THEN <<SubSeq(t, i, MatchEnd(t, i))>> \o findallFrom[t, MatchEnd(t, i) + 1]
    ELSE findallFrom[t, i + 1]

\* re.findall(EMAIL_REGEX, text)
findall(t) == findallFrom[t, 1]

\* ------------------------------------------------------------ the network
\* Page texts soup.get_text() can return.
PageTexts == {"no address here", "a@b.com", "a@b.com, A@b.com a@b.com"}

\* What requests.get and the parse of its response can do for one call:
\*   RequestException  requests.get raises (timeout, DNS, connection, TLS);
\*   response          a response with an HTTP status; body_ok = FALSE when reading
\*                     or parsing its body raises something that is no
\*                     RequestException (decoding, parser error).
NetOutcomes ==
    {[kind |-> "RequestException", status |-> 0, text |-> "", body_ok |-> FALSE, msg |-> "Read timed out."]}
    \cup {[kind |-> "response", status |-> 200, text |-> t, body_ok |-> TRUE, msg |-> ""] : t \in PageTexts}
    \cup {[kind |-> "response", status |-> 200, text |-> "", body_ok |-> FALSE, msg |-> "codec can't decode"]}
    \cup {[kind |-> "response", status |-> st, text |-> "a@b.com", body_ok |-> TRUE, msg |-> ""] :
            st \in {300, 404, 503}}

\* The row placeholder of a call that issues no request.
NoRequest == [kind |-> "none", status |-> 0, text |-> "", body_ok |-> FALSE, msg |-> ""]

\* raise_for_status that raises for 4xx alone.
raise_for_status_4xx(status) == status >= 400 /\ status < 500

\* response.raise_for_status(): HTTPError (a RequestException) for 4xx and 5xx.
raise_for_status(status) == status >= 400 /\ status < 600

HTTPErrorMessage(status) ==
    ToString(status) \o (IF status < 500 THEN " Client Error" ELSE " Server Error")

\* ------------------------------------------------------------ extract_emails_from_url
HasScheme(url) == StartsWith(url, "http://") \/ StartsWith(url, "https://")

\* Lines 25-26: the url the function works on.
Prefixed(url) == IF ~HasScheme(url) THEN "https://" \o url ELSE url

Returned(d) == [kind |-> "return", value |-> d, exc |-> "", msg |-> ""]
Proceed == [kind |-> "proceed", value |-> [status |-> "", message |-> "", emails |-> <<>>], exc |-> "", msg |-> ""]
Raised(e, m) == [kind |-> "raise", value |-> [status |-> "", message |-> "", emails |-> <<>>], exc |-> e, msg |-> m]

\* Line 50 without the set: the matches as found, repeats kept.
UniqueOrdersNoDedup(emails) == {emails}

\* Line 50: list(set(emails)), in the order the set happens to iterate.
UniqueOrders(emails) == UNION {Orderings(S) : S \in {Range(emails)}}

\* Lines 28-30 skipped: any url that parses goes on to the request.
ValidateNoHostCheck(url) ==
    IF urlparse_raises(Prefixed(url)) THEN Raised("Exception", "Invalid IPv6 URL")
    ELSE Proceed

\* Lines 24-30: how the try block leaves before the request, or Proceed.
Validate(url) ==
    IF urlparse_raises(Prefixed(url)) THEN Raised("Exception", "Invalid IPv6 URL")
    ELSE IF netloc(Prefixed(url)) = ""
    THEN Returned([status |-> "error", message |-> "Invalid URL format", emails |-> <<>>])
    ELSE Proceed

\* Whether the call reaches requests.get (line 37).
IssuesRequest(url) == Validate(url) = Proceed

\* The orders line 50 can produce for this call (<<>> alone when it is not reached).
OrderChoices(url, net) ==
    IF IssuesRequest(url) /\ net.kind = "response" /\ ~raise_for_status(net.status) /\ net.body_ok
    THEN UNION {UniqueOrders(emails) : emails \in {findall(net.text)}}
    ELSE {<<>>}

\* The body of the try block, lines 24-52.
TryBody(url, net, order) ==
    IF Validate(url) # Proceed THEN Validate(url)
    ELSE IF net.kind = "RequestException" THEN Raised("RequestException", net.msg)
    ELSE IF raise_for_status(net.status) THEN Raised("RequestException", HTTPErrorMessage(net.status))
    ELSE IF ~net.body_ok THEN Raised("Exception", net.msg)
    ELSE Returned([status |-> "success", message |-> "", emails |-> order])

\* The except clauses with line 57 returning the bare text of the exception.
HandleBare(b) ==
    IF b.kind = "return" THEN b
    ELSE IF b.exc = "RequestException"
    THEN Returned([status |-> "error", message |-> "Request failed: " \o b.msg, emails |-> <<>>])
    ELSE Returned([status |-> "error", message |-> b.msg, emails |-> <<>>])

\* The except clauses without lines 56-57: only a RequestException is caught.
HandleRequestOnly(b) ==
    IF b.kind = "return" THEN b
    ELSE IF b.exc = "RequestException"
    THEN Returned([status |-> "error", message |-> "Request failed: " \o b.msg, emails |-> <<>>])
    ELSE b

\* The except clauses, lines 54-57.  A raise that no clause catches leaves the function.
Handle(b) ==
    IF b.kind = "return" THEN b
    ELSE IF b.exc = "RequestException"
    THEN Returned([status |-> "error", message |-> "Request failed: " \o b.msg, emails |-> <<>>])
    ELSE Returned([status |-> "error", message |-> "An error occurred: " \o b.msg, emails |-> <<>>])

extract_emails_from_url(url, net, order) == Handle(TryBody(url, net, order))

\* ------------------------------------------------------------ the table
NaN == [na |-> TRUE, s |-> "nan"]
Str(s) == [na |-> FALSE, s |-> s]

\* Cells of the URL column in the general specification.
RawCells ==
    {NaN, Str(""), Str("   "), Str("http://"), Str("https://?q"), Str("["),
     Str("example.com/contact"), Str(" http://a.b/c\t")}

\* Cells of the URL column in the specification with fairness: a blank row, a url
\* without host, and a url that is fetched.
FairCells == {NaN, Str("http://"), Str("a.b")}

\* Cells of the URL column in the specification of long error lists.
ManyCells == {NaN, Str("http://"), Str("https://"), Str("a.b")}

Tables(cells, n) == UNION {[1..k -> cells] : k \in 0..n}

\* Line 118 without strip().
IsBlankNoStrip(cell) == cell.na \/ cell.s = ""

\* Line 118: pd.isna(url) or str(url).strip() == ''
IsBlank(cell) == cell.na \/ Strip(cell.s) = ""

\* Lines 127-129 with "https://" put in front of every url.
CleanURLAlways(cell) == "https://" \o Strip(cell.s)

\* Lines 127-129: the cleaned url handed to the extractor.
CleanURL(cell) ==
    LET url == Strip(cell.s)
    IN  IF ~HasScheme(url) THEN "https://" \o url ELSE url

\* ------------------------------------------------------------ state
VARIABLES
    df,                 \* the URL column of the uploaded table, a sequence of cells
    total_rows,         \* line 112
    i,                  \* the loop's row label, 0-based
    results,            \* line 113
    progress,           \* the fractions progress_bar.progress was called with, as [num, den]
    fetches,            \* the requests.get calls made: [row, url, net]
    extraction,         \* per processed row, what extract_emails_from_url returned (or NotCalled)
    pc,                 \* "loop", "done", or "aborted" (an exception left the handler)
    Extracted_Emails,   \* line 156
    Extraction_Status,  \* line 157
    error_report        \* lines 190-196: [warning, lines, trailer]

vars == <<df, total_rows, i, results, progress, fetches, extraction, pc,
          Extracted_Emails, Extraction_Status, error_report>>

NotCalled == [status |-> "not called", message |-> "", emails |-> <<>>]

NoReport == [warning |-> <<>>, lines |-> <<>>, trailer |-> <<>>]

Start(table) ==
    /\ df = table
    /\ total_rows = Len(table)
    /\ i = 0
    /\ results = <<>>
    /\ progress = <<>>
    /\ fetches = <<>>
    /\ extraction = <<>>
    /\ pc = "loop"
    /\ Extracted_Emails = <<>>
    /\ Extraction_Status = <<>>
    /\ error_report = NoReport

Init == \E table \in Tables(RawCells, MaxRows) : Start(table)

InitFair == \E table \in Tables(FairCells, MaxRows) : Start(table)

\* Long tables over few cells, at most one of which is fetched.
InitMany ==
    \E table \in Tables(ManyCells, MaxRowsMany) :
        /\ Cardinality({k \in 1..Len(table) :
                ~IsBlank(table[k]) /\ IssuesRequest(CleanURL(table[k]))}) <= 1
        /\ Start(table)

\* ------------------------------------------------------------ the loop, lines 115-153
\* Lines 118-124 without the append: the blank row is passed over.
SkipRowNoAppend ==
    /\ pc = "loop"
    /\ i < total_rows
    /\ IsBlank(df[i + 1])
    /\ extraction' = Append(extraction, NotCalled)
    /\ i' = i + 1
    /\ UNCHANGED <<df, total_rows, results, progress, fetches, pc, Extracted_Emails, Extraction_Status, error_report>>

\* Lines 118-124: a blank row is recorded as skipped; continue jumps over line 153.
SkipRow ==
    /\ pc = "loop"
    /\ i < total_rows
    /\ IsBlank(df[i + 1])
    /\ results' = Append(results, [url |-> df[i + 1], emails |-> "No URL provided", status |-> "skipped"])
    /\ extraction' = Append(extraction, NotCalled)
    /\ i' = i + 1
    /\ UNCHANGED <<df, total_rows, progress, fetches, pc, Extracted_Emails, Extraction_Status, error_report>>

\* Lines 134-144: the display string and the status of an extraction result.
Classify(er) ==
    IF er.status = "success"
    THEN IF er.emails # <<>>
         THEN [emails |-> Join(er.emails, " / "),
               status |-> "Found " \o ToString(Len(er.emails)) \o " emails"]
         ELSE [emails |-> "No emails found", status |-> "no emails"]
    ELSE [emails |-> "Error: " \o er.message, status |-> "error"]

\* Lines 126-153 for a row that is not blank.  url (line 129), call (line 132) and
\* c (lines 134-144) are each computed once and then only read.
ProcessRow ==
    /\ pc = "loop"
    /\ i < total_rows
    /\ ~IsBlank(df[i + 1])
    /\ \E url \in {CleanURL(df[i + 1])} :
       \E net \in (IF IssuesRequest(url) THEN NetOutcomes ELSE {NoRequest}) :
       \E order \in OrderChoices(url, net) :
       \E call \in {extract_emails_from_url(url, net, order)} :
       \E c \in {Classify(call.value)} :
                 /\ fetches' = IF IssuesRequest(url)
                               THEN Append(fetches, [row |-> i + 1, url |-> Prefixed(url), net |-> net])
                               ELSE fetches
                 /\ IF call.kind = "raise"
                    THEN /\ pc' = "aborted"
                         /\ UNCHANGED <<results, extraction, progress, i>>
                    ELSE /\ results' = Append(results, [url |-> Str(url), emails |-> c.emails, status |-> c.status])
                         /\ extraction' = Append(extraction, call.value)
                         /\ progress' = Append(progress, [num |-> i + 1, den |-> total_rows])
                         /\ i' = i + 1
                         /\ pc' = pc
    /\ UNCHANGED <<df, total_rows, Extracted_Emails, Extraction_Status, error_report>>

\* ------------------------------------------------------------ after the loop, lines 155-196
\* Errors listed before the rest is summarised (errors[:5]).
MaxShown == 5

Min(a, b) == IF a < b THEN a ELSE b

IsError(r) == r.status = "error"

\* Lines 190-196 with the trailer written from MaxShown errors on (>= for >).
ErrorReportFromMaxShown(res) ==
    LET errors == SelectSeq(res, IsError)
        shown == SubSeq(errors, 1, Min(MaxShown, Len(errors)))
    IN  IF errors = <<>> THEN NoReport
        ELSE [warning |-> <<"Encountered errors with " \o ToString(Len(errors)) \o " URLs:">>,
              lines |-> [k \in 1..Len(shown) |-> "- " \o shown[k].url.s \o ": " \o shown[k].emails],
              trailer |-> IF Len(errors) >= MaxShown
                          THEN <<"... and " \o ToString(Len(errors) - MaxShown) \o " more errors">>
                          ELSE <<>>]

\* Lines 190-196.
ErrorReport(res) ==
    LET errors == SelectSeq(res, IsError)
        shown == SubSeq(errors, 1, Min(MaxShown, Len(errors)))
    IN  IF errors = <<>> THEN NoReport
        ELSE [warning |-> <<"Encountered errors with " \o ToString(Len(errors)) \o " URLs:">>,
              lines |-> [k \in 1..Len(shown) |-> "- " \o shown[k].url.s \o ": " \o shown[k].emails],
              trailer |-> IF Len(errors) > MaxShown
                          THEN <<"... and " \o ToString(Len(errors) - MaxShown) \o " more errors">>
                          ELSE <<>>]

\* Lines 155-196; assigning a column of another length than the table raises.
Report ==
    /\ pc = "loop"
    /\ i = total_rows
    /\ IF Len(results) # Len(df)
       THEN /\ pc' = "aborted"
            /\ UNCHANGED <<Extracted_Emails, Extraction_Status, error_report>>
       ELSE /\ Extracted_Emails' = [k \in 1..Len(results) |-> results[k].emails]
            /\ Extraction_Status' = [k \in 1..Len(results) |-> results[k].status]
            /\ error_report' = ErrorReport(results)
            /\ pc' = "done"
    /\ UNCHANGED <<df, total_rows, i, results, progress, fetches, extraction>>

Next == SkipRow \/ ProcessRow \/ Report

Spec == Init /\ [][Next]_vars

SpecMany == InitMany /\ [][Next]_vars

\* The handler runs on one thread, nothing else is scheduled, and every call of
\* requests.get returns or raises within its timeout (timeout=10, line 37): a step
\* that can be taken is taken.
FairSpec == InitFair /\ [][Next]_vars /\ WF_vars(Next)

\* ------------------------------------------------------------ properties
Rows == 1..Len(results)

LoopFinished == (pc = "loop" /\ i = total_rows) \/ pc = "done"

\* A cell that is missing, empty, or made of whitespace alone.
BlankCell(cell) == cell.na \/ \A k \in 1..Len(cell.s) : Char(cell.s, k) \in Whitespace

\* The raw text of a cell without the whitespace around it.
Trimmed(cell) == Strip(cell.s)

\* The url a row's raw text stands for: itself with a scheme, "https://" put in front without.
Normalized(cell) ==
    IF StartsWith(Trimmed(cell), "http://") \/ StartsWith(Trimmed(cell), "https://")
    THEN Trimmed(cell)
    ELSE "https://" \o Trimmed(cell)

\* A cell whose url has no host: nothing, or "/", "?" or "#", right after "://".
Hostless(cell) ==
    /\ ~cell.na
    /\ LET url == Normalized(cell)
           host == FirstOf(url, 1, {":"}) + 3
       IN  host > Len(url) \/ Char(url, host) \in {"/", "?", "#"}

FetchesOf(k) == {f \in Range(fetches) : f.row = k}

\* C1: when the batch loop has finished, results holds exactly one entry per row of
\* the table, and the k-th entry is the result of the k-th row: it carries that
\* row's url (the raw cell for a skipped row, the normalized url otherwise) and
\* the display and status of that row's extraction; the two output columns hold
\* the same, row by row.
C1_OneResultPerRowInOrder ==
    LoopFinished =>
        /\ Len(results) = Len(df)
        /\ \A k \in 1..Len(df) :
              /\ results[k].url = (IF BlankCell(df[k]) THEN df[k] ELSE Str(Normalized(df[k])))
              /\ BlankCell(df[k]) <=> results[k].status = "skipped"
              /\ \A f \in FetchesOf(k) : f.url = results[k].url.s
        /\ pc = "done" =>
              /\ Len(Extracted_Emails) = Len(df) /\ Len(Extraction_Status) = Len(df)
              /\ \A k \in 1..Len(df) :
                    Extracted_Emails[k] = results[k].emails /\ Extraction_Status[k] = results[k].status

C1_Witness ==
    /\ pc = "done"
    /\ Len(df) = 2
    /\ df[1] = NaN /\ results[1].status = "skipped"
    /\ df[2] = Str("example.com/contact") /\ results[2].status = "Found 2 emails"

\* C2: a row whose url cell is missing (NaN), empty or whitespace-only gets display
\* "No URL provided" and status "skipped", extract_emails_from_url is not called
\* for it and no HTTP request is issued for it.
C2_BlankRowSkippedWithoutFetch ==
    \A k \in Rows :
        BlankCell(df[k]) =>
            /\ results[k].emails = "No URL provided"
            /\ results[k].status = "skipped"
            /\ extraction[k] = NotCalled
            /\ FetchesOf(k) = {}

C2_Witness ==
    /\ Len(results) = 2
    /\ df[1] = Str("   ") /\ results[1].status = "skipped"
    /\ df[2] = NaN /\ results[2].status = "skipped"
    /\ fetches = <<>>

\* C3 as stated: a row whose raw url is just whitespace, or garbage with no host,
\* ends with status "error" and a display that starts with "Error: ".
C3_WhitespaceOrHostlessIsError ==
    \A k \in Rows :
        (~df[k].na /\ (Trimmed(df[k]) = "" \/ Hostless(df[k]))) =>
            results[k].status = "error" /\ StartsWith(results[k].emails, "Error: ")

\* C3 amended: a row whose raw url, trimmed, is not empty and has no host (such as
\* "http://") ends with status "error" and a display that starts with "Error: ";
\* a raw url that is just whitespace is skipped instead.
C3_HostlessIsErrorWhitespaceSkipped ==
    \A k \in Rows :
        /\ (Hostless(df[k]) /\ Trimmed(df[k]) # "") =>
              results[k].status = "error" /\ StartsWith(results[k].emails, "Error: ")
        /\ (~df[k].na /\ Trimmed(df[k]) = "") =>
              results[k].status = "skipped" /\ results[k].emails = "No URL provided"

C3_Witness ==
    /\ Len(results) = 2
    /\ df[1] = Str("http://") /\ results[1].emails = "Error: Invalid URL format"
    /\ df[2] = Str("   ") /\ results[2].status = "skipped"

\* The statuses of a row that found emails.
FoundStatuses == {"Found " \o ToString(n) \o " emails" : n \in 1..3}

\* C4: the classification of a row that is not skipped is total and exact.  A
\* success with emails gives the emails joined by " / " and "Found n emails", n the
\* number of distinct emails, which are the distinct matches of the fetched text;
\* a success without gives "No emails found" and "no emails"; a failure with
\* reason r gives "Error: " + r and "error"; every row has one of the four statuses.
C4_ClassificationExact ==
    \A k \in Rows :
        /\ results[k].status \in {"skipped", "no emails", "error"} \cup FoundStatuses
        /\ results[k].status # "skipped" =>
              LET er == extraction[k]
                  r == results[k]
              IN  /\ er.status \in {"success", "error"}
                  /\ (er.status = "success" /\ er.emails # <<>>) =>
                        /\ r.emails = Join(er.emails, " / ")
                        /\ r.status = "Found " \o ToString(Cardinality(Range(er.emails))) \o " emails"
                  /\ (er.status = "success" /\ er.emails = <<>>) =>
                        r.emails = "No emails found" /\ r.status = "no emails"
                  /\ er.status = "success" =>
                        \A f \in FetchesOf(k) : Range(er.emails) = Range(findall(f.net.text))
                  /\ er.status = "error" =>
                        r.emails = "Error: " \o er.message /\ r.status = "error"

C4_Witness ==
    \E k \in Rows :
        /\ results[k].status = "Found 2 emails"
        /\ results[k].emails = "A@b.com / a@b.com"
        /\ \E f \in FetchesOf(k) : Len(findall(f.net.text)) = 3

\* A fetch that failed at the network layer.
NetworkFailure(net) == net.kind = "RequestException"

RequestFailed(k) ==
    /\ extraction[k].status = "error"
    /\ StartsWith(extraction[k].message, "Request failed: ")
    /\ extraction[k].emails = <<>>
    /\ results[k].status = "error"

C6_TwoReasonPrefixes ==
    \A k \in Rows :
        extraction[k].status = "error" =>
            \/ StartsWith(extraction[k].message, "Request failed: ")
            \/ StartsWith(extraction[k].message, "An error occurred: ")

\* C6 amended: every failure the extractor returns has a reason that starts with
\* "Request failed: " or "An error occurred: ", or is "Invalid URL format".
C6_ThreeReasons ==
    \A k \in Rows :
        extraction[k].status = "error" =>
            \/ StartsWith(extraction[k].message, "Request failed: ")
            \/ StartsWith(extraction[k].message, "An error occurred: ")
            \/ extraction[k].message = "Invalid URL format"

C6_Witness ==
    /\ Len(results) = 2
    /\ extraction[1].message = "An error occurred: Invalid IPv6 URL"
    /\ extraction[2].message = "An error occurred: codec can't decode"

\* C7 as stated: the progress callback is called after every processed row, skipped
\* rows included, with rows processed / total rows; so the fractions do not
\* decrease, lie in (0, 1], the last one of a finished batch that is not empty is 1,
\* and nothing is divided by a total of zero.
C7_ProgressAfterEveryRow ==
    /\ Len(progress) = Len(results)
    /\ \A k \in 1..Len(progress) :
          /\ progress[k].den # 0
          /\ progress[k].num = k /\ progress[k].den = total_rows
          /\ 0 < progress[k].num /\ progress[k].num <= progress[k].den
    /\ (pc = "done" /\ total_rows > 0) =>
          progress # <<>> /\ progress[Len(progress)].num = progress[Len(progress)].den

\* C8: a failure in one row never aborts the batch.  No exception leaves the
\* handler; every row the loop has passed has its result; equal rows with equal
\* extractions have equal results wherever they stand in the table; every step
\* passes one row or writes the report; and, each call returning or timing out,
\* the run reaches completion with a result for every row.
C8_RowFailureNeverAborts ==
    /\ [](/\ pc \in {"loop", "done"}
          /\ i <= total_rows
          /\ Len(results) = i
          /\ \A j, k \in Rows :
                (df[j] = df[k] /\ extraction[j] = extraction[k]) => results[j] = results[k]
          /\ \A j, k \in 1..Len(fetches) : j < k => fetches[j].row < fetches[k].row)
    /\ [][pc = "loop" /\ ((i' = i + 1 /\ pc' = "loop") \/ (i = total_rows /\ pc' = "done"))]_vars
    /\ <>(pc = "done" /\ Len(results) = Len(df))

C8_Witness ==
    /\ pc = "done"
    /\ Len(results) = 2
    /\ df[1] = Str("http://") /\ results[1].emails = "Error: Invalid URL format"
    /\ extraction[2].message = "An error occurred: codec can't decode"
    /\ results[2].status = "error"

\* Positions of the error rows, in the order of the table.
ErrorRows == {k \in Rows : results[k].status = "error"}

\* The n-th error row.
NthErrorRow(n) == CHOOSE k \in ErrorRows : Cardinality({j \in ErrorRows : j <= k}) = n

\* C9: after a finished batch the error sample lists min(5, total_errors) rows, the
\* first error rows in the order of the table, each with its url and display, and
\* the trailer "... and N more errors" is written if and only if total_errors > 5,
\* with N = total_errors - 5.
C9_ErrorSampleCapped ==
    pc = "done" =>
        LET n == Cardinality(ErrorRows)
        IN  /\ Len(error_report.lines) = (IF n < 5 THEN n ELSE 5)
            /\ \A m \in 1..Len(error_report.lines) :
                  error_report.lines[m] =
                      "- " \o results[NthErrorRow(m)].url.s \o ": " \o results[NthErrorRow(m)].emails
            /\ error_report.trailer # <<>> <=> n > 5
            /\ n > 5 => error_report.trailer = <<"... and " \o ToString(n - 5) \o " more errors">>

C9_Witness ==
    /\ pc = "done"
    /\ Cardinality(ErrorRows) = 6
    /\ error_report.trailer = <<"... and 1 more errors">>
    /\ df[1] = Str("https://") /\ df[6] = Str("a.b")
    /\ error_report.lines[1] = "- https://: Error: Invalid URL format"

\* C10: an HTTP GET is issued only for a url that starts with "http://" or
\* "https://" and has a host; it is the row's trimmed raw text when that has such a
\* prefix, and "https://" + the trimmed raw text otherwise, the prefix added once;
\* a row whose url has no host gets the error "Invalid URL format" and no request.
C10_GetOnlyForNormalizedURL ==
    /\ \A f \in Range(fetches) :
          /\ StartsWith(f.url, "http://") \/ StartsWith(f.url, "https://")
          /\ ~Hostless(Str(f.url))
          /\ f.url = Normalized(df[f.row])
    /\ \A k \in Rows :
          (Hostless(df[k]) /\ Trimmed(df[k]) # "") =>
              results[k].emails = "Error: Invalid URL format" /\ FetchesOf(k) = {}

C10_Witness ==
    /\ Len(fetches) = 2
    /\ df[1] = Str("example.com/contact") /\ fetches[1].url = "https://example.com/contact"
    /\ df[2] = Str(" http://a.b/c\t") /\ fetches[2].url = "http://a.b/c"

====
